---- MODULE Spec2Model ----
(***************************************************************************)
(* A model of pluribus: the status record of one task instance (plurb),    *)
(* the agent output file the agent process writes, the interpreter of that *)
(* file (agent_output.py), the lifecycle processor (post_run.py), the      *)
(* status updates of `workon` (cli.py) and the session-id polling loop     *)
(* (agents.py).                                                            *)
(***************************************************************************)
EXTENDS Integers, Sequences, FiniteSets, TLC

(***************************************************************************)
(* Python values.  None is the empty tuple and a present value v is <<v>>, *)
(* so that a nullable field compares with None whatever its type.  A JSON  *)
(* scalar is a record: t its JSON type, s its string, n its number.        *)
(***************************************************************************)
None == <<>>
Some(v) == <<v>>

JNull == [t |-> "null", s |-> "", n |-> 0]
JStr(str) == [t |-> "str", s |-> str, n |-> 0]
JNum(num) == [t |-> "num", s |-> "", n |-> num]

\* Python truthiness of a JSON scalar: None, "" and 0 are falsy.
Truthy(j) ==
    CASE j.t = "null" -> FALSE
      [] j.t = "str" -> j.s # ""
      [] OTHER -> j.n # 0

\* What a Python call does: it returns a value or it raises.
Ret(v) == [raised |-> FALSE, val |-> v]
Raised == [raised |-> TRUE, val |-> None]

(***************************************************************************)
(* Result texts.  A text is a sequence of lines; a line has the length of  *)
(* its stripped content and the tokens the regular expressions of          *)
(* agent_output.py can see in it:                                          *)
(*   ask  pat p : a match of ask_patterns[p] capturing `payload`           *)
(*   perm pat p : a match of permission_patterns[p] capturing `payload`    *)
(*   pct        : "<n>%" at the start, after white space or "Completed "   *)
(*   kw   pat p : a keyword of phase_patterns[p]                           *)
(*   word       : anything else                                            *)
(* The empty sequence is the empty string.                                 *)
(***************************************************************************)
Tok(kind, pat, payload, n) == [kind |-> kind, pat |-> pat, payload |-> payload, n |-> n]
Ask(p, payload) == Tok("ask", p, payload, 0)
Perm(p, payload) == Tok("perm", p, payload, 0)
Pct(n) == Tok("pct", 0, "", n)
Kw(p) == Tok("kw", p, "", 0)
Word == Tok("word", 0, "", 0)
Line(len, toks) == [len |-> len, toks |-> toks]

\* The result value of an envelope: null, a string (a text) or another JSON
\* value (a number, n).
RNull == [t |-> "null", text |-> <<>>, n |-> 0]
RStr(text) == [t |-> "str", text |-> text, n |-> 0]
RNum(num) == [t |-> "num", text |-> <<>>, n |-> num]

\* `not result_text`
RFalsy(r) ==
    CASE r.t = "null" -> TRUE
      [] r.t = "str" -> r.text = <<>>
      [] OTHER -> r.n = 0

RECURSIVE Flat(_)
\* The tokens of a text in the order of the text.
Flat(text) == IF text = <<>> THEN <<>> ELSE text[1].toks \o Flat(Tail(text))

(***************************************************************************)
(* The agent output file, .pluribus/agent-output.json.  kind says what a   *)
(* reader finds: no file, a file open() fails on, bytes that are not       *)
(* UTF-8, an empty (or white space) file, text that is not JSON (also a    *)
(* partially written document), or a JSON document of some type.  For an   *)
(* object, keys are its keys and session/result/error the values of the    *)
(* three keys the program reads; for an array (a string), keys are the     *)
(* strings that are elements (substrings) of it.                           *)
(***************************************************************************)
File(kind, keys, session, result, error) ==
    [kind |-> kind, keys |-> keys, session |-> session, result |-> result, error |-> error]
Bare(kind) == File(kind, {}, JNull, RNull, JNull)
Probe(kind, keys) == File(kind, keys, JNull, RNull, JNull)
Absent == Bare("absent")
EmptyFile == Bare("empty")

\* json.load(f) raises JSONDecodeError
NotJson(f) == f.kind \in {"empty", "invalid"}
\* x in data, for a container
Contains(f, key) == key \in f.keys
\* data.get(key): a dict's value, None for a missing key
SessionOf(f) == IF "session_id" \in f.keys THEN f.session ELSE JNull
ResultOf(f) == IF "result" \in f.keys THEN f.result ELSE RNull
ErrorOf(f) == IF "error" \in f.keys THEN f.error ELSE JStr("Unknown error")

(***************************************************************************)
(* agent_output.py                                                         *)
(***************************************************************************)
\* data.get raises AttributeError on an array, a string, a number and null;
\* UnicodeDecodeError is a ValueError that is not a JSONDecodeError.
extract_session_id_from_json(f) ==
    CASE f.kind = "absent" -> Ret(JNull)
      [] f.kind = "unreadable" -> Ret(JNull)
      [] NotJson(f) -> Ret(JNull)
      [] f.kind = "object" -> Ret(SessionOf(f))
      [] OTHER -> Raised

extract_result_from_json(f) ==
    CASE f.kind = "absent" -> Ret(RNull)
      [] f.kind = "unreadable" -> Ret(RNull)
      [] NotJson(f) -> Ret(RNull)
      [] f.kind = "object" -> Ret(ResultOf(f))
      [] OTHER -> Raised

ErrorInfo(message, ts) == [type |-> "agent_error", message |-> message, timestamp |-> ts]

\* "error" in data: a key of an object, an element of an array, a substring
\* of a string, TypeError on a number and on null.
extract_error_from_output(f, ts) ==
    CASE f.kind = "absent" -> Ret(None)
      [] f.kind = "unreadable" -> Ret(None)
      [] NotJson(f) -> Ret(None)
      [] f.kind = "object" ->
            IF Contains(f, "error") THEN Ret(Some(ErrorInfo(ErrorOf(f), ts))) ELSE Ret(None)
      [] f.kind \in {"array", "string"} ->
            IF Contains(f, "error") THEN Raised ELSE Ret(None)
      [] OTHER -> Raised

AskPatterns == 4
PermissionPatterns == 3

AskIntervention(payload, ts) ==
    [type |-> "ask_user_question", timestamp |-> ts, question |-> payload,
     options |-> <<>>, blocking |-> FALSE, answered |-> FALSE]
PermIntervention(payload, ts) ==
    [type |-> "permission_grant", timestamp |-> ts, description |-> payload,
     blocking |-> TRUE, answered |-> FALSE]

\* interv.get("question") or interv.get("description"), interv["type"]
IntervKey(iv) ==
    <<IF iv.type = "ask_user_question" THEN iv.question ELSE iv.description, iv.type>>

RECURSIVE MatchesFrom(_, _, _, _)
\* The matches of the patterns p..last of one family, pattern by pattern and
\* within a pattern in the order of the text (re.finditer).
MatchesFrom(toks, kind, p, last) ==
    IF p > last THEN <<>>
    ELSE SelectSeq(toks, LAMBDA tk : tk.kind = kind /\ tk.pat = p)
            \o MatchesFrom(toks, kind, p + 1, last)

RECURSIVE Unique(_, _)
\* "Remove duplicates": the first entry of each key, in list order.
Unique(ivs, keys) ==
    IF ivs = <<>> THEN <<>>
    ELSE IF IntervKey(ivs[1]) \in keys THEN Unique(Tail(ivs), keys)
    ELSE <<ivs[1]>> \o Unique(Tail(ivs), keys \cup {IntervKey(ivs[1])})

\* AllInterventions listing the matches of both families in text order.
AllInterventions_TextOrder(text, ts) ==
    LET toks == SelectSeq(Flat(text), LAMBDA tk : tk.kind \in {"ask", "perm"})
    IN  [i \in 1..Len(toks) |->
            IF toks[i].kind = "ask" THEN AskIntervention(toks[i].payload, ts)
            ELSE PermIntervention(toks[i].payload, ts)]

\* lines 107-137: the matches of the ask patterns, then those of the
\* permission patterns
AllInterventions(text, ts) ==
    LET toks == Flat(text)
        asks == MatchesFrom(toks, "ask", 1, AskPatterns)
        perms == MatchesFrom(toks, "perm", 1, PermissionPatterns)
    IN  [i \in 1..Len(asks) |-> AskIntervention(asks[i].payload, ts)]
            \o [i \in 1..Len(perms) |-> PermIntervention(perms[i].payload, ts)]

\* re.finditer raises TypeError on a truthy value that is not a string.
detect_interventions(r, ts) ==
    IF RFalsy(r) THEN Ret(<<>>)
    ELSE IF r.t # "str" THEN Raised
    ELSE Ret(Unique(AllInterventions(r.text, ts), {}))

SummaryLimit == 200
PhasePatterns == 4
PhaseName(p) ==
    CASE p = 1 -> "complete"
      [] p = 2 -> "testing"
      [] p = 3 -> "implementation"
      [] OTHER -> "planning"

EmptySummary == [lines |-> 0, len |-> 0]
DefaultSignals == [progress_percent |-> 0, phase |-> "in_progress", work_summary |-> EmptySummary]

\* int(progress_match.group(1)) of the first match, 0 without a match
ProgressOf(toks) ==
    LET pcts == SelectSeq(toks, LAMBDA tk : tk.kind = "pct")
    IN  IF pcts = <<>> THEN 0 ELSE pcts[1].n

\* PhaseOf taking the phase of the keyword that comes first in the text.
PhaseOf_FirstInText(toks) ==
    LET kws == SelectSeq(toks, LAMBDA tk : tk.kind = "kw")
    IN  IF kws = <<>> THEN "in_progress" ELSE PhaseName(kws[1].pat)

\* the first pattern of phase_patterns that the text matches
PhaseOf(toks) ==
    LET found == {p \in 1..PhasePatterns :
                    \E i \in 1..Len(toks) : toks[i].kind = "kw" /\ toks[i].pat = p}
    IN  IF found = {} THEN "in_progress"
        ELSE PhaseName(CHOOSE p \in found : \A q \in found : p <= q)

RECURSIVE SummaryFrom(_, _)
\* The loop over the lines: a line is taken while it is not blank and the
\* joined length with it stays under the limit; the first other line ends
\* the loop.  acc is the summary so far: the lines taken and their joined
\* length.
SummaryFrom(lines, acc) ==
    IF lines = <<>> THEN acc
    ELSE IF lines[1].len > 0 /\ acc.len + 1 + lines[1].len < SummaryLimit
    THEN SummaryFrom(Tail(lines),
            [lines |-> acc.lines + 1,
             len |-> IF acc.lines = 0 THEN lines[1].len ELSE acc.len + 1 + lines[1].len])
    ELSE acc

\* ' '.join(summary_lines)[:200]
Truncate(sm) == [lines |-> sm.lines, len |-> IF sm.len > SummaryLimit THEN SummaryLimit ELSE sm.len]

extract_progress_signals(r) ==
    IF RFalsy(r) THEN Ret(DefaultSignals)
    ELSE IF r.t # "str" THEN Raised
    ELSE Ret([progress_percent |-> ProgressOf(Flat(r.text)),
              phase |-> PhaseOf(Flat(r.text)),
              work_summary |-> Truncate(SummaryFrom(r.text, EmptySummary))])

OutputData(sid, ivs, signals, err) ==
    [session_id |-> sid, interventions |-> ivs,
     progress_percent |-> signals.progress_percent, phase |-> signals.phase,
     work_summary |-> signals.work_summary, error |-> err]

\* process_agent_output without the early return of lines 223-225: the
\* extractors run over the result text of an error envelope too.
process_agent_output_NoShortCircuit(f, ts) ==
    LET sid == extract_session_id_from_json(f)
        err == extract_error_from_output(f, ts)
        res == extract_result_from_json(f)
    IN  IF sid.raised \/ err.raised \/ res.raised THEN Raised
        ELSE LET ivs == detect_interventions(res.val, ts)
                 sig == extract_progress_signals(res.val)
             IN  IF ivs.raised \/ sig.raised THEN Raised
                 ELSE Ret(OutputData(sid.val, ivs.val, sig.val, err.val))

process_agent_output(f, ts) ==
    LET sid == extract_session_id_from_json(f)
        err == extract_error_from_output(f, ts)
        res == extract_result_from_json(f)
    IN  IF sid.raised \/ err.raised THEN Raised
        ELSE IF err.val # None
        THEN Ret(OutputData(sid.val, <<>>, DefaultSignals, err.val))
        ELSE IF res.raised THEN Raised
        ELSE LET ivs == detect_interventions(res.val, ts)
                 sig == extract_progress_signals(res.val)
             IN  IF ivs.raised \/ sig.raised THEN Raised
                 ELSE Ret(OutputData(sid.val, ivs.val, sig.val, None))

(***************************************************************************)
(* The status store (status_file.py): one JSON document per worktree, here *)
(* a function from field names to values; NoRecord when there is no file.  *)
(***************************************************************************)
NoRecord == <<>>
EmptyDict == <<>>

\* dict.update: the keys of b win, the other keys of a stay.
Overlay(a, b) ==
    [k \in DOMAIN a \cup DOMAIN b |-> IF k \in DOMAIN b THEN b[k] ELSE a[k]]

\* StatusFile.create(task_id): a fresh record.
StatusFile_create(task_id, ts) ==
    [task_id |-> task_id, status |-> "pending", phase |-> "in_progress",
     progress_percent |-> 0, work_summary |-> EmptySummary, interventions |-> <<>>,
     blockers |-> None, session_id |-> JNull, agent_pid |-> None,
     claude_instance_active |-> FALSE, last_update |-> ts,
     notes |-> JNull, pr_url |-> JNull]

\* StatusFile.load(): the stored document as it is, None without a file.
StatusFile_load(rec) == IF rec = NoRecord THEN None ELSE Some(rec)

\* StatusFile.update writing the partial alone.
StatusFile_update_Replace(rec, partial, ts) ==
    Overlay(partial, [last_update |-> ts])

\* StatusFile.update(partial): load (or an empty record), overlay the partial,
\* set last_update, replace the document.
StatusFile_update(rec, partial, ts) ==
    Overlay(Overlay(rec, partial), [last_update |-> ts])

\* a field of a document, None when the document does not have it
Field(rec, k) == IF k \in DOMAIN rec THEN Some(rec[k]) ELSE None

\* StatusFile.get_status(): load().status
StatusFile_get_status(rec) == Field(rec, "status")

Statuses == {"pending", "in_progress", "awaiting_input", "blocked", "completed"}

\* A record written by the older schema: no interventions, no work_summary,
\* no blockers, and a field `blocker` the current schema does not know.
OldRecord(status) ==
    [task_id |-> "test-task", status |-> status, phase |-> "implementation",
     progress_percent |-> 50, last_update |-> 0, claude_instance_active |-> TRUE,
     agent_pid |-> Some(9999), session_id |-> JStr("sess_old"), pr_url |-> JNull,
     blocker |-> JNull, notes |-> JStr("Old status file")]

(***************************************************************************)
(* post_run.py: the updates process_completed_agent_run builds from the    *)
(* output data.                                                            *)
(***************************************************************************)
\* lines 20-25
BaseUpdates(od) ==
    [claude_instance_active |-> FALSE, progress_percent |-> od.progress_percent,
     phase |-> od.phase, work_summary |-> od.work_summary]

\* lines 27-29
SessionUpdates(od) ==
    IF Truthy(od.session_id) THEN [session_id |-> od.session_id] ELSE EmptyDict

\* InterventionUpdates writing the list also when it is empty.
InterventionUpdates_Always(od) == [interventions |-> od.interventions]

\* lines 31-33
InterventionUpdates(od) ==
    IF od.interventions # <<>> THEN [interventions |-> od.interventions] ELSE EmptyDict

\* StatusUpdates with the error branch recording the blockers only.
StatusUpdates_ErrorKeepsStatus(od) ==
    IF od.error # None THEN [blockers |-> od.error]
    ELSE IF od.interventions # <<>> THEN [status |-> "awaiting_input"]
    ELSE EmptyDict

\* StatusUpdates without the awaiting_input branch.
StatusUpdates_NoAwaitingInput(od) ==
    IF od.error # None THEN [status |-> "blocked", blockers |-> od.error]
    ELSE EmptyDict

\* StatusUpdates with a run that reports itself done marked completed.
StatusUpdates_CompletesWhenDone(od) ==
    IF od.error # None THEN [status |-> "blocked", blockers |-> od.error]
    ELSE IF od.interventions # <<>> THEN [status |-> "awaiting_input"]
    ELSE IF od.phase = "complete" /\ od.progress_percent >= 100 THEN [status |-> "completed"]
    ELSE EmptyDict

\* StatusUpdates with "assume ready" written out: a run without error and
\* without intervention goes back to in_progress.
StatusUpdates_AssumeReady(od) ==
    IF od.error # None THEN [status |-> "blocked", blockers |-> od.error]
    ELSE IF od.interventions # <<>> THEN [status |-> "awaiting_input"]
    ELSE [status |-> "in_progress"]

\* lines 35-47
StatusUpdates(od) ==
    IF od.error # None THEN [status |-> "blocked", blockers |-> od.error]
    ELSE IF od.interventions # <<>> THEN [status |-> "awaiting_input"]
    ELSE EmptyDict

BuildUpdates(od) ==
    Overlay(Overlay(Overlay(BaseUpdates(od), SessionUpdates(od)),
                    InterventionUpdates(od)), StatusUpdates(od))

(***************************************************************************)
(* tasks.py: identifiers.  A string is a sequence of characters; the       *)
(* characters that matter to the regular expressions are upper and lower   *)
(* case letters (ASCII and not), digits, the underscore, white space, the  *)
(* hyphen, the slash and other punctuation.                                *)
(***************************************************************************)
UpperChars == {"A", "B", "É"}
LowerChars == {"a", "b", "é", "x", "y", "p", "l", "u", "r", "i", "s"}
DigitChars == {"1", "2"}
SpaceChars == {" ", "\t"}

\* str.lower(), character by character
LowerChar(c) ==
    CASE c = "A" -> "a"
      [] c = "B" -> "b"
      [] c = "É" -> "é"
      [] OTHER -> c
Lower(s) == [i \in 1..Len(s) |-> LowerChar(s[i])]

\* \w and \s of Python's re on str: Unicode letters, digits and underscore;
\* Unicode white space.
IsWord(c) == c \in UpperChars \cup LowerChars \cup DigitChars \cup {"_"}
IsSpace(c) == c \in SpaceChars

RECURSIVE DropRun(_, _)
\* s without the leading characters that are in cs
DropRun(s, cs) == IF s # <<>> /\ s[1] \in cs THEN DropRun(Tail(s), cs) ELSE s

RECURSIVE CollapseRuns(_, _, _)
\* re.sub(r'[cs]+', rep, s): every run of characters of cs becomes rep
CollapseRuns(s, cs, rep) ==
    IF s = <<>> THEN <<>>
    ELSE IF s[1] \in cs THEN <<rep>> \o CollapseRuns(DropRun(s, cs), cs, rep)
    ELSE <<s[1]>> \o CollapseRuns(Tail(s), cs, rep)

RECURSIVE DropTail(_, _)
\* s without the trailing characters that are in cs
DropTail(s, cs) ==
    IF s # <<>> /\ s[Len(s)] \in cs THEN DropTail(SubSeq(s, 1, Len(s) - 1), cs) ELSE s

\* str.strip(chars)
Strip(s, cs) == DropTail(DropRun(s, cs), cs)

RECURSIVE Replace(_, _)
\* str.replace(pat, ''): every occurrence of pat, from the left, is removed
Replace(s, pat) ==
    IF s = <<>> THEN <<>>
    ELSE IF Len(s) >= Len(pat) /\ SubSeq(s, 1, Len(pat)) = pat
    THEN Replace(SubSeq(s, Len(pat) + 1, Len(s)), pat)
    ELSE <<s[1]>> \o Replace(Tail(s), pat)

BranchPrefix == <<"p", "l", "u", "r", "i", "b", "u", "s", "/">>

\* lines 85-88: the task name, normalized
Normalize(name) ==
    LET kept == SelectSeq(Lower(name), LAMBDA c : IsWord(c) \/ IsSpace(c) \/ c = "-")
        hyphened == CollapseRuns(kept, SpaceChars, "-")
        collapsed == CollapseRuns(hyphened, {"-"}, "-")
    IN  Strip(collapsed, {"-"})

\* task_to_branch_name with the suffix appended without a separator.
task_to_branch_name_NoSeparator(name, sfx) ==
    BranchPrefix \o Normalize(name) \o sfx

\* task_to_branch_name(task_name, unique_suffix), the suffix given
task_to_branch_name(name, sfx) ==
    BranchPrefix \o Normalize(name) \o <<"-">> \o sfx

\* task_to_slug keeping ASCII letters, digits and hyphens only.
task_to_slug_AsciiOnly(name, sfx) ==
    SelectSeq(Replace(task_to_branch_name(name, sfx), BranchPrefix),
              LAMBDA c : c \in {"a", "b", "x", "y", "p", "l", "u", "r", "i", "s", "1", "2", "-"})

\* task_to_slug(task_name, unique_suffix), the suffix given
task_to_slug(name, sfx) ==
    SelectSeq(Replace(task_to_branch_name(name, sfx), BranchPrefix),
              LAMBDA c : IsWord(c) \/ c = "-")

(***************************************************************************)
(* tasks.py: the task catalog.  todo.md is a sequence of lines; a line is  *)
(* "## " and a text ("task"), another line that starts with "#" ("hash"),  *)
(* a line of text ("text") or a blank line ("blank").                      *)
(***************************************************************************)
TaskLine(text) == [kind |-> "task", text |-> text]
HashLine == [kind |-> "hash", text |-> <<"T">>]
TextLine == [kind |-> "text", text |-> <<"d">>]
BlankLine == [kind |-> "blank", text |-> <<>>]

\* a task of the catalog: (task_name, description), the description as the
\* lines it is joined from
Task(name, desc) == [name |-> name, desc |-> desc]

\* lines 33-35 and 41-43: the task read so far is kept when it has a name
Flush(tasks, cur, desc) ==
    IF cur # None /\ cur[1] # <<>> THEN Append(tasks, Task(cur[1], desc)) ELSE tasks

RECURSIVE ParseFrom(_, _, _, _)
\* lines 31-43: the loop over the lines, with current_task and current_desc
ParseFrom(lines, tasks, cur, desc) ==
    IF lines = <<>> THEN Flush(tasks, cur, desc)
    ELSE IF lines[1].kind = "task"
    THEN ParseFrom(Tail(lines), Flush(tasks, cur, desc),
                   Some(Strip(lines[1].text, SpaceChars)), <<>>)
    ELSE IF cur # None /\ cur[1] # <<>> /\ lines[1].kind = "text"
    THEN ParseFrom(Tail(lines), tasks, cur, Append(desc, lines[1].text))
    ELSE ParseFrom(Tail(lines), tasks, cur, desc)

\* TaskParser.parse(): no tasks without the file
parse(doc) == IF doc = None THEN <<>> ELSE ParseFrom(doc[1], <<>>, None, <<>>)

\* q in s, for strings
IsSubstring(q, s) ==
    \E i \in 0..(Len(s) - Len(q)) : SubSeq(s, i + 1, i + Len(q)) = q

RECURSIVE FirstTrue(_, _)
\* lines 51-53: the loop over the tasks stops at the first one the test
\* holds for; hits[i] is the test on task i, k the task the loop is at.
\* 0 when the loop runs out.
FirstTrue(hits, k) ==
    IF k > Len(hits) THEN 0
    ELSE IF hits[k] THEN k
    ELSE FirstTrue(hits, k + 1)

\* get_task_by_name comparing the names as they are written.
get_task_by_name_ExactCase(doc, q) ==
    LET tasks == parse(doc)
        at == FirstTrue([i \in 1..Len(tasks) |-> IsSubstring(q, tasks[i].name)], 1)
    IN  IF at = 0 THEN Raised ELSE Ret(tasks[at])

\* TaskParser.get_task_by_name(name): ValueError when the loop runs out
get_task_by_name(doc, q) ==
    LET tasks == parse(doc)
        at == FirstTrue([i \in 1..Len(tasks) |->
                            IsSubstring(Lower(q), Lower(tasks[i].name))], 1)
    IN  IF at = 0 THEN Raised ELSE Ret(tasks[at])

(***************************************************************************)
(* The worktree manager (worktree.py): the worktree directories under      *)
(* worktrees/, by slug, and the branches of the repository, by name.       *)
(***************************************************************************)
HasPrefix(s, p) == Len(s) >= Len(p) /\ SubSeq(s, 1, Len(p)) = p

\* Worktree.exists(slug)
Worktree_exists(wts, slug) == slug \in wts

\* Worktree.create(branch_name, slug): a new branch and its worktree;
\* AlreadyExists when the path exists, a git failure when the branch does.
Worktree_create(wts, brs, branch, slug) ==
    IF slug \in wts
    THEN [outcome |-> "already_exists", worktrees |-> wts, branches |-> brs]
    ELSE IF branch \in brs
    THEN [outcome |-> "git_failure", worktrees |-> wts, branches |-> brs]
    ELSE [outcome |-> "created", worktrees |-> wts \cup {slug}, branches |-> brs \cup {branch}]

\* Worktree.delete(slug): the worktree goes, the branch is not touched.
Worktree_delete(wts, slug) == wts \ {slug}

\* Worktree.get_orphaned_branches(): the branches under pluribus/ without a
\* live worktree.
Worktree_get_orphaned_branches(wts, brs) ==
    {b \in brs : HasPrefix(b, BranchPrefix) /\ ~(\E s \in wts : b = BranchPrefix \o s)}

\* Worktree.delete_branch(name)
Worktree_delete_branch(brs, branch) == brs \ {branch}

(***************************************************************************)
(* agents.py: the agent configurations, their resolution and the command   *)
(* line and input stream of the process spawn_agent starts.                *)
(***************************************************************************)
\* lines 12-18
AgentConfig(name, command, args, setup) ==
    [name |-> name, command |-> command, args |-> args, setup |-> setup]

HeadlessName == "headless-claude-code"

\* lines 21-30
get_default_agents ==
    [k \in {HeadlessName} |-> AgentConfig(HeadlessName, "claude", <<"-p">>, None)]

\* `not x` for an Optional[str]: None and the empty string
NoName(x) == x = None \/ x = Some("")

\* resolve_agent with the built-in agents looked up before the config.
resolve_agent_BuiltinFirst(requested, cfg, dflt) ==
    LET built_in == get_default_agents
    IN  IF NoName(requested)
        THEN IF ~NoName(dflt) /\ dflt[1] \in DOMAIN built_in THEN Ret(Some(built_in[dflt[1]]))
             ELSE IF ~NoName(dflt) /\ dflt[1] \in DOMAIN cfg THEN Ret(Some(cfg[dflt[1]]))
             ELSE Ret(Some(built_in[HeadlessName]))
        ELSE IF requested[1] \in DOMAIN built_in THEN Ret(Some(built_in[requested[1]]))
        ELSE IF requested[1] \in DOMAIN cfg THEN Ret(Some(cfg[requested[1]]))
        ELSE Raised

\* resolve_agent(agent_name, config_agents, default_agent), lines 83-103;
\* Raised is the ValueError of line 101
resolve_agent(requested, cfg, dflt) ==
    LET built_in == get_default_agents
    IN  IF NoName(requested)
        THEN IF ~NoName(dflt) /\ dflt[1] \in DOMAIN cfg THEN Ret(Some(cfg[dflt[1]]))
             ELSE IF ~NoName(dflt) /\ dflt[1] \in DOMAIN built_in THEN Ret(Some(built_in[dflt[1]]))
             ELSE Ret(Some(built_in[HeadlessName]))
        ELSE IF requested[1] \in DOMAIN cfg THEN Ret(Some(cfg[requested[1]]))
        ELSE IF requested[1] \in DOMAIN built_in THEN Ret(Some(built_in[requested[1]]))
        ELSE Raised

\* x in args, for a list of strings
InList(x, args) == \E i \in 1..Len(args) : args[i] = x

\* lines 198-206: the command line of the agent process
Command(ag, description) ==
    LET base == <<ag.command>> \o ag.args
        formatted == IF ag.name = HeadlessName /\ ~InList("--output-format", ag.args)
                     THEN base \o <<"--output-format", "json">>
                     ELSE base
    IN  IF ag.name = HeadlessName /\ description # ""
        THEN Append(formatted, description)
        ELSE formatted

\* What spawn_agent did: how it ended, the command line given to Popen, what
\* was written to the input stream of the process (None: nothing, the stream
\* is not a pipe) and whether the output file was opened for writing.
Spawned(outcome, cmd, stdin, opened) ==
    [outcome |-> outcome, cmd |-> cmd, stdin |-> stdin, opened |-> opened]
NoSpawn == Spawned("none", <<>>, None, FALSE)

\* spawn_agent, lines 190-232.  setup_ok: the setup script exits with 0;
\* popen: Popen returns ("pid"), raises FileNotFoundError ("not_found") or
\* raises something else ("os_error").  Popen is called without stdin and
\* nothing is written to the process.
spawn_agent(ag, description, setup_ok, popen) ==
    IF ag.setup # None /\ ~setup_ok THEN Spawned("RuntimeError", <<>>, None, FALSE)
    ELSE CASE popen = "pid" -> Spawned("pid", Command(ag, description), None, TRUE)
           [] popen = "not_found" -> Spawned("FileNotFoundError", Command(ag, description), None, TRUE)
           [] OTHER -> Spawned("RuntimeError", Command(ag, description), None, TRUE)

(***************************************************************************)
(* cli.py: the instance directories resume, details and delete find for a  *)
(* task name.  A plurb is a directory of worktrees/, by its name (slug),   *)
(* with the task workon made it for.                                       *)
(***************************************************************************)
Plurb(task, slug) == [task |-> task, slug |-> slug]

\* resume lines 350-354, details 543-547, delete 621-625
matching_plurbs(dirs, full_task_name) ==
    {d \in dirs : HasPrefix(d.slug, task_to_slug(full_task_name, <<>>))}

\* What a command did with its identifier: how the identifier was taken
\* ("plurb_id", "task" or "none"), the task it resolved to, the directories
\* matched, the one chosen and how the command ended.
MatchOp(cmd, by, task, matching, chosen, outcome) ==
    [command |-> cmd, by |-> by, task |-> task, matching |-> matching,
     plurb_id |-> chosen, outcome |-> outcome]
NoMatchOp == MatchOp("none", "none", <<>>, {}, None, "none")

(***************************************************************************)
(* The state of one task instance.                                         *)
(***************************************************************************)
VARIABLES
    record,       \* the status document of the worktree, or NoRecord
    outfile,      \* the agent output file
    now,          \* the clock the timestamps are read from
    wpc,          \* where workon is: "idle", "created", "spawned"
    pc,           \* where process_completed_agent_run is: "idle", "parsed"
    output_data,  \* its output_data, and after the call that of the last call
    seen,         \* the output file as that call read it
    rerun,        \* that call began right after another call had returned,
                  \* on the output file and the record that call left
    callPre,      \* the status document when that call began
    callPost,     \* the status document when that call returned
    observed,     \* what a concurrent reader's load() returned
    lastOp,       \* the last operation on the instance
    provenance,   \* "prior": a record found on disk; "created": made by create
    fn,           \* the function of agent_output.py called last
    out,          \* what that call did: the value returned, or raised
    ppc,          \* where try_get_session_id is: "loop", "sleep", "done"
    elapsed,      \* time.time() - start_time, in sleeps of 0.1 s
    timeout,      \* timeout_seconds, in the same unit
    presult,      \* how try_get_session_id ended ("pending" while it runs) and
                  \* the value it returned
    lastRead,     \* the output file as its last poll read it
    wroteInTime,  \* the file holds a session id written before the timeout
    arg,          \* the partial of the last StatusFile.update
    prior,        \* the status document before that update
    written,      \* the partials of all updates of the document, overlaid
    task_name,    \* a task name given to the identifier functions
    unique_suffix,\* and the suffix given with it
    other,        \* a second pair of task name and suffix
    names,        \* what task_to_slug and task_to_branch_name returned
    todo,         \* the lines of todo.md, None without the file
    query,        \* the name get_task_by_name is asked for
    found,        \* what get_task_by_name did, None before the call
    worktrees,    \* the slugs that have a worktree directory
    branches,     \* the branches of the repository
    treeOp,       \* the last command run on the worktrees
    config_agents,\* the agents of the workspace config, by name
    agent_name,   \* the --agent option of workon, None without it
    default_agent,\* default_agent of the config, None without it
    task_description, \* the description of the task worked on
    resolved,     \* what resolve_agent did, None before the call
    spawned,      \* what spawn_agent did
    plurbs,       \* the instance directories under worktrees/
    matchOp       \* the last resume, details or delete

lifeVars == <<record, outfile, now, wpc, pc, output_data, seen, rerun, callPre, callPost,
              observed, lastOp, provenance>>
extractVars == <<fn, out>>
pollVars == <<ppc, elapsed, timeout, presult, lastRead, wroteInTime>>
storeVars == <<arg, prior, written>>
identVars == <<task_name, unique_suffix, other, names>>
catalogVars == <<todo, query, found>>
treeVars == <<worktrees, branches, treeOp>>
workspaceVars == <<identVars, catalogVars, treeVars>>
agentVars == <<config_agents, agent_name, default_agent, task_description, resolved, spawned>>
instanceVars == <<plurbs, matchOp>>
commandVars == <<agentVars, instanceVars>>
vars == <<lifeVars, extractVars, pollVars, storeVars, workspaceVars, commandVars>>

MaxTime == 1

TextPlain == <<Line(30, <<Word, Word>>)>>
TextAsk == <<Line(40, <<Pct(45), Kw(3), Word>>), Line(30, <<Ask(2, "the schema")>>)>>
TextDone == <<Line(25, <<Pct(100), Kw(1)>>)>>
TextPerm == <<Line(50, <<Kw(2), Perm(1, "write files"), Word>>)>>
TextOver == <<Line(20, <<Word, Pct(150)>>)>>
\* a planning keyword, then a testing and an implementation keyword
TextPhases == <<Line(30, <<Kw(4), Kw(2)>>), Line(20, <<Kw(3)>>)>>
TextPlan == <<Line(15, <<Word, Kw(4)>>)>>
\* a permission request, two questions, and the request and the second
\* question again
TextMixed ==
    <<Line(60, <<Perm(1, "write files"), Ask(2, "the schema")>>),
      Line(90, <<Ask(1, "the backlog"), Perm(1, "write files"), Ask(2, "the schema")>>)>>
\* one line longer than the summary, two lines that do not fit together, a
\* line of the longest length that fits, and a text that starts with a
\* blank line
TextLong == <<Line(250, <<Word>>)>>
TextTwoLines == <<Line(150, <<Word>>), Line(60, <<Word>>)>>
TextFits == <<Line(198, <<Word>>)>>
TextBlankFirst == <<Line(0, <<>>), Line(30, <<Word>>)>>

Obj(keys, session, result, error) == File("object", keys, session, result, error)

\* The output files an agent run leaves behind.
RunOutputs ==
    { Absent, Bare("invalid"), Bare("number"),
      Obj({}, JNull, RNull, JNull),
      Obj({"session_id", "error"}, JStr("sess_1"), RNull, JStr("Permission denied")),
      Obj({"error", "result"}, JNull, RStr(TextAsk), JNull),
      Obj({"session_id", "result"}, JStr("sess_2"), RStr(TextAsk), JNull),
      Obj({"session_id", "result"}, JStr(""), RStr(TextPerm), JNull),
      Obj({"result"}, JNull, RStr(TextDone), JNull),
      Obj({"result"}, JNull, RStr(TextPlain), JNull),
      Obj({"result"}, JNull, RStr(TextOver), JNull),
      Obj({"session_id", "result"}, JStr("sess_1"), RNum(5), JNull) }

NoCall == [session_id |-> JNull, interventions |-> <<>>, progress_percent |-> 0,
           phase |-> "in_progress", work_summary |-> EmptySummary, error |-> None]

\* Nothing is remembered of an earlier call of process_completed_agent_run.
ForgetCall ==
    /\ output_data' = NoCall
    /\ seen' = Absent
    /\ rerun' = FALSE
    /\ callPre' = None
    /\ callPost' = None
    /\ observed' = None

\* The task instance at rest: no call of process_completed_agent_run, of
\* workon or of a reader is under way.
LifeAtRest ==
    /\ now = 0
    /\ wpc = "idle"
    /\ pc = "idle"
    /\ output_data = NoCall
    /\ seen = Absent
    /\ rerun = FALSE
    /\ callPre = None
    /\ callPost = None
    /\ observed = None
    /\ lastOp = "none"
    /\ provenance = "prior"

\* try_get_session_id ended: how is "return" (lines 269, 272), "timeout"
\* (line 277) or "raise" (an exception left the call).
Ended(how, val) == [how |-> how, val |-> val]

ExtractAtRest == fn = "none" /\ out = Ret(None)

PollAtRest ==
    /\ ppc = "done"
    /\ elapsed = 0
    /\ timeout = 0
    /\ presult = Ended("timeout", JNull)
    /\ lastRead = None
    /\ wroteInTime = FALSE

StoreAtRest == arg = EmptyDict /\ prior = NoRecord /\ written = EmptyDict

\* No identifier has been asked for yet.
NoNames == [slug |-> None, branch |-> None, other_slug |-> None]
IdentAtRest ==
    /\ task_name = <<>> /\ unique_suffix = <<>>
    /\ other = [task_name |-> <<>>, unique_suffix |-> <<>>]
    /\ names = NoNames

CatalogAtRest == todo = None /\ query = <<>> /\ found = None

\* No command has run on the worktrees yet.
NoTreeOp ==
    [op |-> "none", slug |-> <<>>, outcome |-> "none", collided |-> FALSE,
     on_existing |-> FALSE, orphaned |-> {}, removed |-> {}]
MainBranch == <<"m", "a", "i", "n">>
TreeAtRest == worktrees = {} /\ branches = {MainBranch} /\ treeOp = NoTreeOp

WorkspaceAtRest == IdentAtRest /\ CatalogAtRest /\ TreeAtRest

AgentAtRest ==
    /\ config_agents = EmptyDict /\ agent_name = None /\ default_agent = None
    /\ task_description = "" /\ resolved = None /\ spawned = NoSpawn

InstanceAtRest == plurbs = {} /\ matchOp = NoMatchOp

CommandAtRest == AgentAtRest /\ InstanceAtRest

Init ==
    /\ record \in {NoRecord} \cup {OldRecord(s) : s \in Statuses}
    /\ outfile = Absent
    /\ LifeAtRest
    /\ ExtractAtRest
    /\ PollAtRest
    /\ StoreAtRest
    /\ CommandAtRest
    /\ WorkspaceAtRest

\* The clock advances.
Tick ==
    /\ UNCHANGED <<extractVars, pollVars, storeVars, commandVars, workspaceVars>>
    /\ now < MaxTime
    /\ now' = now + 1
    /\ UNCHANGED <<record, outfile, wpc, pc, output_data, seen, rerun, callPre, callPost,
                   observed, lastOp, provenance>>

\* The agent process (or anything else) writes the output file.
AgentWrites ==
    /\ UNCHANGED <<extractVars, pollVars, storeVars, commandVars, workspaceVars>>
    /\ pc = "idle"
    /\ \E f \in RunOutputs : f # outfile /\ outfile' = f
    /\ lastOp' = "agent_writes"
    /\ ForgetCall
    /\ UNCHANGED <<record, now, wpc, pc, provenance>>

(***************************************************************************)
(* process_completed_agent_run (post_run.py).                              *)
(***************************************************************************)
\* PostRunParse with the instance marked inactive as soon as the call
\* starts, in an update of its own.
PostRunParse_WritesEarly ==
    /\ UNCHANGED <<extractVars, pollVars, storeVars, commandVars, workspaceVars>>
    /\ pc = "idle" /\ wpc = "idle"
    /\ LET res == process_agent_output(outfile, now)
       IN  IF res.raised
           THEN /\ lastOp' = "post_run_raised"
                /\ ForgetCall
                /\ UNCHANGED <<pc, record>>
           ELSE /\ pc' = "parsed"
                /\ output_data' = res.val
                /\ seen' = outfile
                /\ rerun' = (lastOp = "post_run")
                /\ callPre' = Some(record)
                /\ callPost' = None
                /\ observed' = None
                /\ lastOp' = "post_run_parse"
                /\ record' = StatusFile_update(record, [claude_instance_active |-> FALSE], now)
    /\ UNCHANGED <<outfile, now, wpc, provenance>>

\* lines 14-17: the output file is read and parsed; an exception of
\* process_agent_output ends the call before anything is written.  After
\* lastOp = "post_run" nothing has written the record or the output file
\* since the call before returned.
PostRunParse ==
    /\ UNCHANGED <<extractVars, pollVars, storeVars, commandVars, workspaceVars>>
    /\ pc = "idle" /\ wpc = "idle"
    /\ LET res == process_agent_output(outfile, now)
       IN  IF res.raised
           THEN /\ lastOp' = "post_run_raised"
                /\ ForgetCall
                /\ UNCHANGED pc
           ELSE /\ pc' = "parsed"
                /\ output_data' = res.val
                /\ seen' = outfile
                /\ rerun' = (lastOp = "post_run")
                /\ callPre' = Some(record)
                /\ callPost' = None
                /\ observed' = None
                /\ lastOp' = "post_run_parse"
    /\ UNCHANGED <<record, outfile, now, wpc, provenance>>

\* PostRunUpdate with the progress never written lower than it is stored.
PostRunUpdate_ProgressOnlyGrows ==
    /\ UNCHANGED <<extractVars, pollVars, storeVars, commandVars, workspaceVars>>
    /\ pc = "parsed"
    /\ LET updates == BuildUpdates(output_data)
           stored == Field(record, "progress_percent")
           kept == IF stored # None /\ stored[1] > updates.progress_percent
                   THEN stored[1] ELSE updates.progress_percent
       IN  record' = StatusFile_update(record, [updates EXCEPT !.progress_percent = kept], now)
    /\ callPost' = Some(record')
    /\ pc' = "idle"
    /\ lastOp' = "post_run"
    /\ UNCHANGED <<outfile, now, wpc, output_data, seen, rerun, callPre, observed, provenance>>

\* PostRunUpdate with the interventions found added to the stored list.
PostRunUpdate_AppendsInterventions ==
    /\ UNCHANGED <<extractVars, pollVars, storeVars, commandVars, workspaceVars>>
    /\ pc = "parsed"
    /\ LET updates == BuildUpdates(output_data)
           stored == Field(record, "interventions")
       IN  record' = StatusFile_update(record,
                        IF stored # None /\ "interventions" \in DOMAIN updates
                        THEN [updates EXCEPT !.interventions = stored[1] \o @]
                        ELSE updates, now)
    /\ callPost' = Some(record')
    /\ pc' = "idle"
    /\ lastOp' = "post_run"
    /\ UNCHANGED <<outfile, now, wpc, output_data, seen, rerun, callPre, observed, provenance>>

\* lines 20-49: the updates are built and written by one StatusFile.update.
PostRunUpdate ==
    /\ UNCHANGED <<extractVars, pollVars, storeVars, commandVars, workspaceVars>>
    /\ pc = "parsed"
    /\ record' = StatusFile_update(record, BuildUpdates(output_data), now)
    /\ callPost' = Some(record')
    /\ pc' = "idle"
    /\ lastOp' = "post_run"
    /\ UNCHANGED <<outfile, now, wpc, output_data, seen, rerun, callPre, observed, provenance>>

\* Another process loads the status document while the call runs, or right
\* after it.
ReaderLoad ==
    /\ UNCHANGED <<extractVars, pollVars, storeVars, commandVars, workspaceVars>>
    /\ pc = "parsed" \/ (pc = "idle" /\ lastOp = "post_run")
    /\ observed = None
    /\ observed' = Some(record)
    /\ UNCHANGED <<record, outfile, now, wpc, pc, output_data, seen, rerun, callPre,
                   callPost, lastOp, provenance>>

(***************************************************************************)
(* workon (cli.py), from the creation of the status file on.               *)
(***************************************************************************)
TaskSlug == "add-database-abc12"
AgentPids == {4242}
AgentMetadata(ts) == [name |-> "headless-claude-code", started_at |-> ts, metadata |-> EmptyDict]

\* lines 232-234: a new worktree, without an output file, gets its status file.
WorkonCreate ==
    /\ UNCHANGED <<extractVars, pollVars, storeVars, commandVars, workspaceVars>>
    /\ wpc = "idle" /\ pc = "idle"
    /\ record' = StatusFile_create(TaskSlug, now)
    /\ outfile' = Absent
    /\ wpc' = "created"
    /\ provenance' = "created"
    /\ lastOp' = "create"
    /\ ForgetCall
    /\ UNCHANGED <<now, pc>>

\* lines 259-279: spawn_agent opens the output file for writing and starts
\* the agent; its pid and the agent are recorded.
WorkonSpawn ==
    /\ UNCHANGED <<extractVars, pollVars, storeVars, commandVars, workspaceVars>>
    /\ wpc = "created"
    /\ outfile' = EmptyFile
    /\ \E pid \in AgentPids :
        record' = StatusFile_update(record,
            [agent_pid |-> Some(pid), agent |-> Some(AgentMetadata(now)),
             status |-> "in_progress", claude_instance_active |-> TRUE], now)
    /\ wpc' = "spawned"
    /\ lastOp' = "spawn"
    /\ ForgetCall
    /\ UNCHANGED <<now, pc, provenance>>

\* WorkonSpawnFails with the record marked in_progress before spawn_agent
\* is called.
WorkonSpawnFails_RecordsFirst ==
    /\ UNCHANGED <<extractVars, pollVars, storeVars, commandVars, workspaceVars>>
    /\ wpc = "created"
    /\ outfile' \in {outfile, EmptyFile}
    /\ record' = StatusFile_update(record,
                    [status |-> "in_progress", claude_instance_active |-> TRUE], now)
    /\ wpc' = "idle"
    /\ lastOp' = "spawn_failed"
    /\ ForgetCall
    /\ UNCHANGED <<now, pc, provenance>>

\* lines 294-296: the setup script fails (the output file is as it was) or
\* the agent command does not start (the output file was opened already).
WorkonSpawnFails ==
    /\ UNCHANGED <<extractVars, pollVars, storeVars, commandVars, workspaceVars>>
    /\ wpc = "created"
    /\ outfile' \in {outfile, EmptyFile}
    /\ wpc' = "idle"
    /\ lastOp' = "spawn_failed"
    /\ ForgetCall
    /\ UNCHANGED <<record, now, pc, provenance>>

(***************************************************************************)
(* try_get_session_id (agents.py).                                         *)
(***************************************************************************)
\* PollPass with text that is not JSON taken as "no session id is coming".
PollPass_GivesUpOnBadJson(f) ==
    CASE f.kind \in {"absent", "unreadable", "empty"} ->
            [next |-> "sleep", val |-> JNull]
      [] f.kind = "invalid" -> [next |-> "return", val |-> JNull]
      [] f.kind = "object" ->
            [next |-> "return", val |-> SessionOf(f)]
      [] f.kind \in {"array", "string"} ->
            IF Contains(f, "session_id") THEN [next |-> "raise", val |-> JNull]
            ELSE [next |-> "return", val |-> JNull]
      [] OTHER -> [next |-> "raise", val |-> JNull]

\* lines 254-275, one pass of the loop body over the file as it is now: the
\* pass sleeps and polls again ("sleep"), returns val ("return") or raises
\* ("raise": UnicodeDecodeError from read(), TypeError from `in` on a number
\* or null and from data["session_id"] on an array or a string).
PollPass(f) ==
    CASE f.kind \in {"absent", "unreadable", "empty", "invalid"} ->
            [next |-> "sleep", val |-> JNull]
      [] f.kind = "object" ->
            [next |-> "return", val |-> SessionOf(f)]
      [] f.kind \in {"array", "string"} ->
            IF Contains(f, "session_id") THEN [next |-> "raise", val |-> JNull]
            ELSE [next |-> "return", val |-> JNull]
      [] OTHER -> [next |-> "raise", val |-> JNull]

\* LoopCondition of `while True`.
LoopCondition_Forever(t, limit) == TRUE

\* line 253
LoopCondition(t, limit) == t < limit

\* What the whole call does when the file stays as it is: a pass that sleeps
\* is repeated until the timeout, and then None is returned.
try_get_session_id_of(f) ==
    LET pass == PollPass(f)
    IN  CASE pass.next = "sleep" -> Ret(JNull)
          [] pass.next = "return" -> Ret(pass.val)
          [] OTHER -> Raised

\* cli.py lines 281-285: the session id, when one was captured, is recorded.
\* An exception of try_get_session_id is not caught: workon ends there.
WorkonCapture ==
    /\ UNCHANGED <<extractVars, pollVars, storeVars, commandVars, workspaceVars>>
    /\ wpc = "spawned"
    /\ LET res == try_get_session_id_of(outfile)
       IN  IF res.raised
           THEN /\ lastOp' = "workon_raised"
                /\ UNCHANGED record
           ELSE /\ lastOp' = "capture"
                /\ record' = IF Truthy(res.val)
                             THEN StatusFile_update(record, [session_id |-> res.val], now)
                             ELSE record
    /\ wpc' = "idle"
    /\ ForgetCall
    /\ UNCHANGED <<outfile, now, pc, provenance>>

Next ==
    \/ Tick
    \/ AgentWrites
    \/ PostRunParse
    \/ PostRunUpdate
    \/ ReaderLoad
    \/ WorkonCreate
    \/ WorkonSpawn
    \/ WorkonSpawnFails
    \/ WorkonCapture

Spec == Init /\ [][Next]_vars

(***************************************************************************)
(* The interpreter of the output file on its own: each function of         *)
(* agent_output.py called on every content of the file.                    *)
(***************************************************************************)
Texts ==
    {TextPlain, TextAsk, TextDone, TextPerm, TextPhases, TextPlan, TextMixed,
     TextLong, TextTwoLines, TextFits, TextBlankFirst}
SessionValues == {JNull, JStr(""), JStr("sess_1")}
ErrorValues == {JNull, JStr("Permission denied")}
ResultValues == {RNull, RStr(<<>>), RNum(0), RNum(5)} \cup {RStr(t) : t \in Texts}
EnvelopeKeys == {"session_id", "result", "error"}

\* JSON objects: every set of the three keys, every value under a key.
Objects ==
    { Obj(ks, IF "session_id" \in ks THEN sv ELSE JNull,
              IF "result" \in ks THEN rv ELSE RNull,
              IF "error" \in ks THEN ev ELSE JNull) :
        ks \in SUBSET EnvelopeKeys, sv \in SessionValues, rv \in ResultValues,
        ev \in ErrorValues }

\* Everything else a reader can find.
NonObjects ==
    {Bare(k) : k \in {"absent", "unreadable", "badutf8", "empty", "invalid", "number", "null"}}
        \cup {Probe(k, ks) : k \in {"array", "string"}, ks \in SUBSET {"session_id", "error"}}

Envelopes == Objects \cup NonObjects

InitExtract ==
    /\ record = NoRecord
    /\ outfile \in Envelopes
    /\ LifeAtRest
    /\ ExtractAtRest
    /\ PollAtRest
    /\ StoreAtRest
    /\ CommandAtRest
    /\ WorkspaceAtRest

Call(name, result) ==
    /\ fn' = name
    /\ out' = result
    /\ UNCHANGED <<lifeVars, pollVars, storeVars, commandVars, workspaceVars>>

CallExtractSessionId == Call("extract_session_id_from_json", extract_session_id_from_json(outfile))
CallExtractResult == Call("extract_result_from_json", extract_result_from_json(outfile))
CallExtractError == Call("extract_error_from_output", extract_error_from_output(outfile, now))
CallProcessAgentOutput == Call("process_agent_output", process_agent_output(outfile, now))
\* the two extractors on the result of the file, as the tests call them
CallDetectInterventions ==
    Call("detect_interventions", detect_interventions(ResultOf(outfile), now))
CallExtractProgressSignals ==
    Call("extract_progress_signals", extract_progress_signals(ResultOf(outfile)))

NextExtract ==
    \/ CallExtractSessionId
    \/ CallExtractResult
    \/ CallExtractError
    \/ CallProcessAgentOutput
    \/ CallDetectInterventions
    \/ CallExtractProgressSignals

SpecExtract == InitExtract /\ [][NextExtract]_vars

(***************************************************************************)
(* try_get_session_id, pass by pass, beside the process that writes the    *)
(* output file.                                                            *)
(***************************************************************************)
MaxTimeout == 3
MaxSleep == 2
ElapsedCap == MaxTimeout + MaxSleep

PollFiles ==
    NonObjects \cup
    { Obj({}, JNull, RNull, JNull),
      Obj({"result"}, JNull, RStr(TextPlain), JNull),
      Obj({"session_id"}, JStr("sess_1"), RNull, JNull),
      Obj({"session_id", "result"}, JStr("sess_2"), RStr(TextPlain), JNull),
      Obj({"session_id"}, JNull, RNull, JNull) }

HasSessionKey(f) == f.kind = "object" /\ "session_id" \in f.keys

\* lines 250-251: the call starts.
InitPoll ==
    /\ record = NoRecord
    /\ outfile \in PollFiles
    /\ LifeAtRest
    /\ ExtractAtRest
    /\ StoreAtRest
    /\ CommandAtRest
    /\ WorkspaceAtRest
    /\ ppc = "loop"
    /\ elapsed = 0
    /\ timeout \in 0..MaxTimeout
    /\ presult = Ended("pending", JNull)
    /\ lastRead = None
    /\ wroteInTime = FALSE

\* lines 253-275: the loop condition holds and the body runs once.
PollRead ==
    /\ ppc = "loop"
    /\ LoopCondition(elapsed, timeout)
    /\ lastRead' = Some(outfile)
    /\ LET pass == PollPass(outfile)
       IN  CASE pass.next = "sleep" -> ppc' = "sleep" /\ UNCHANGED presult
             [] pass.next = "return" -> ppc' = "done" /\ presult' = Ended("return", pass.val)
             [] OTHER -> ppc' = "done" /\ presult' = Ended("raise", JNull)
    /\ UNCHANGED <<lifeVars, extractVars, storeVars, commandVars, workspaceVars, elapsed, timeout, wroteInTime>>

\* time.sleep(0.1): at least the time asked for passes.  The clock is read
\* up to ElapsedCap, which the loop cannot pass.
PollSleep ==
    /\ ppc = "sleep"
    /\ \E d \in 1..MaxSleep :
            elapsed' = IF elapsed + d > ElapsedCap THEN ElapsedCap ELSE elapsed + d
    /\ ppc' = "loop"
    /\ UNCHANGED <<lifeVars, extractVars, storeVars, commandVars, workspaceVars, timeout, presult, lastRead, wroteInTime>>

\* line 277: the loop condition fails.
PollExpire ==
    /\ ppc = "loop"
    /\ ~LoopCondition(elapsed, timeout)
    /\ ppc' = "done"
    /\ presult' = Ended("timeout", JNull)
    /\ UNCHANGED <<lifeVars, extractVars, storeVars, commandVars, workspaceVars, elapsed, timeout, lastRead, wroteInTime>>

\* The agent (the writer of the file) replaces its content while the call
\* runs.
PollWriter ==
    /\ ppc # "done"
    /\ \E f \in PollFiles : f # outfile /\ outfile' = f
    /\ wroteInTime' = (HasSessionKey(outfile') /\ elapsed < timeout
                        /\ PollPass(outfile).next = "sleep")
    /\ UNCHANGED <<record, now, wpc, pc, output_data, seen, rerun, callPre, callPost,
                   observed, lastOp, provenance>>
    /\ UNCHANGED <<extractVars, storeVars, commandVars, workspaceVars, ppc, elapsed, timeout, presult, lastRead>>

PollStep == PollRead \/ PollSleep \/ PollExpire

NextPoll == PollRead \/ PollSleep \/ PollExpire \/ PollWriter

\* The caller's thread is scheduled: a pass, a sleep or the exit that can be
\* taken is taken.  Nothing is assumed of the writer.
SpecPoll == InitPoll /\ [][NextPoll]_vars /\ WF_vars(PollStep)

(***************************************************************************)
(* The status store on its own: create and update called directly, as the  *)
(* tests do.                                                               *)
(***************************************************************************)
Partials ==
    { EmptyDict,
      [a |-> JNum(1)],
      [b |-> JNum(2)],
      [session_id |-> JStr("sess_1")],
      [status |-> "blocked", blockers |-> Some(ErrorInfo(JStr("Permission denied"), 0))],
      [interventions |-> <<AskIntervention("Continue?", 0)>>,
       work_summary |-> [lines |-> 1, len |-> 31]],
      [progress_percent |-> 45, phase |-> "implementation",
       work_summary |-> [lines |-> 1, len |-> 22],
       interventions |-> <<AskIntervention("Should I use REST or GraphQL?", 0)>>] }

InitStore ==
    /\ record \in {NoRecord} \cup {OldRecord(s) : s \in {"in_progress", "completed"}}
    /\ outfile = Absent
    /\ LifeAtRest
    /\ ExtractAtRest
    /\ PollAtRest
    /\ StoreAtRest
    /\ CommandAtRest
    /\ WorkspaceAtRest

StoreCreate ==
    /\ record' = StatusFile_create("test-task-123", now)
    /\ arg' = EmptyDict
    /\ prior' = record
    /\ written' = EmptyDict
    /\ lastOp' = "create"
    /\ UNCHANGED <<outfile, now, wpc, pc, output_data, seen, rerun, callPre, callPost,
                   observed, provenance>>
    /\ UNCHANGED <<extractVars, pollVars, workspaceVars, commandVars>>

StoreUpdate ==
    /\ \E partial \in Partials :
        /\ record' = StatusFile_update(record, partial, now)
        /\ arg' = partial
        /\ written' = Overlay(written, partial)
    /\ prior' = record
    /\ lastOp' = "update"
    /\ UNCHANGED <<outfile, now, wpc, pc, output_data, seen, rerun, callPre, callPost,
                   observed, provenance>>
    /\ UNCHANGED <<extractVars, pollVars, workspaceVars, commandVars>>

NextStore == Tick \/ StoreCreate \/ StoreUpdate

SpecStore == InitStore /\ [][NextStore]_vars

(***************************************************************************)
(* The identifier functions on their own: task_to_slug and                 *)
(* task_to_branch_name called on task names of every make-up.              *)
(***************************************************************************)
MaxNameLen == 2

NameChars == {"A", "b", "é", "1", "_", " ", "\t", "-", "!", "/"}

RECURSIVE StringsUpTo(_, _)
\* the strings over cs of length n at most
StringsUpTo(cs, n) ==
    IF n = 0 THEN {<<>>}
    ELSE LET shorter == StringsUpTo(cs, n - 1)
         IN  shorter \cup {Append(s, c) : s \in shorter, c \in cs}

TaskNames == StringsUpTo(NameChars, MaxNameLen)

\* lower case alphanumeric suffixes (generate_unique_suffix draws five such
\* characters)
Suffixes == {<<"b", "1">>, <<"1">>}

\* the names a second task may have
OtherNames == {<<"a">>, <<"A", "B">>, <<"a", " ", "b">>, <<"B", "!">>, <<"é">>}

InitIdent ==
    /\ record = NoRecord
    /\ outfile = Absent
    /\ LifeAtRest
    /\ ExtractAtRest
    /\ PollAtRest
    /\ StoreAtRest
    /\ CommandAtRest
    /\ CatalogAtRest
    /\ TreeAtRest
    /\ task_name \in TaskNames
    /\ unique_suffix \in Suffixes
    /\ other \in [task_name : OtherNames, unique_suffix : Suffixes]
    /\ names = NoNames

CallTaskToSlug ==
    /\ names.slug = None
    /\ names' = [names EXCEPT !.slug = Some(task_to_slug(task_name, unique_suffix))]
    /\ UNCHANGED <<lifeVars, extractVars, pollVars, storeVars, commandVars, catalogVars, treeVars>>
    /\ UNCHANGED <<task_name, unique_suffix, other>>

CallTaskToSlugOther ==
    /\ names.other_slug = None
    /\ names' = [names EXCEPT
                    !.other_slug = Some(task_to_slug(other.task_name, other.unique_suffix))]
    /\ UNCHANGED <<lifeVars, extractVars, pollVars, storeVars, commandVars, catalogVars, treeVars>>
    /\ UNCHANGED <<task_name, unique_suffix, other>>

CallTaskToBranchName ==
    /\ names.branch = None
    /\ names' = [names EXCEPT !.branch = Some(task_to_branch_name(task_name, unique_suffix))]
    /\ UNCHANGED <<lifeVars, extractVars, pollVars, storeVars, commandVars, catalogVars, treeVars>>
    /\ UNCHANGED <<task_name, unique_suffix, other>>

NextIdent == CallTaskToSlug \/ CallTaskToSlugOther \/ CallTaskToBranchName

SpecIdent == InitIdent /\ [][NextIdent]_vars

(***************************************************************************)
(* The task catalog on its own: get_task_by_name called on a todo.md.      *)
(***************************************************************************)
MaxDocLen == 2

HeadingTexts == {<<>>, <<"A">>, <<"a", "b">>, <<"B", "A", " ">>}
DocLines == {TaskLine(h) : h \in HeadingTexts} \cup {HashLine, TextLine, BlankLine}
Docs == StringsUpTo(DocLines, MaxDocLen)
Queries == {<<>>, <<"a">>, <<"A", "B">>, <<"b">>, <<"x">>}

InitCatalog ==
    /\ record = NoRecord
    /\ outfile = Absent
    /\ LifeAtRest
    /\ ExtractAtRest
    /\ PollAtRest
    /\ StoreAtRest
    /\ CommandAtRest
    /\ IdentAtRest
    /\ TreeAtRest
    /\ todo \in {None} \cup {Some(d) : d \in Docs}
    /\ query \in Queries
    /\ found = None

CallGetTaskByName ==
    /\ found = None
    /\ found' = Some(get_task_by_name(todo, query))
    /\ UNCHANGED <<lifeVars, extractVars, pollVars, storeVars, commandVars, identVars, treeVars>>
    /\ UNCHANGED <<todo, query>>

NextCatalog == CallGetTaskByName

SpecCatalog == InitCatalog /\ [][NextCatalog]_vars

(***************************************************************************)
(* The commands that make and remove worktrees and branches: workon up to  *)
(* the creation of the worktree, delete and git-cleanup (cli.py).          *)
(***************************************************************************)
TreeTasks == {<<"A">>, <<"b", "!">>}

TreeOp(op, slug, outcome, collided, on_existing, orphaned, removed) ==
    [op |-> op, slug |-> slug, outcome |-> outcome, collided |-> collided,
     on_existing |-> on_existing, orphaned |-> orphaned, removed |-> removed]

InitTree ==
    /\ record = NoRecord
    /\ outfile = Absent
    /\ LifeAtRest
    /\ ExtractAtRest
    /\ PollAtRest
    /\ StoreAtRest
    /\ CommandAtRest
    /\ IdentAtRest
    /\ CatalogAtRest
    /\ TreeAtRest

\* workon, lines 209-230: a suffix is generated; when the slug has a worktree
\* already, another suffix is generated, once; the worktree is created, or
\* workon exits on the WorktreeError.
WorkonWorktree ==
    /\ \E name \in TreeTasks, first \in Suffixes, second \in Suffixes :
        LET collided == Worktree_exists(worktrees, task_to_slug(name, first))
            sfx == IF collided THEN second ELSE first
            slug == task_to_slug(name, sfx)
            res == Worktree_create(worktrees, branches, task_to_branch_name(name, sfx), slug)
        IN  /\ worktrees' = res.worktrees
            /\ branches' = res.branches
            /\ treeOp' = TreeOp("workon", slug, res.outcome, collided,
                                Worktree_exists(worktrees, slug), {}, {})
    /\ UNCHANGED <<lifeVars, extractVars, pollVars, storeVars, commandVars, identVars, catalogVars>>

\* delete with the branch of the worktree deleted along with it.
DeleteWorktree_AlsoBranch ==
    /\ \E slug \in worktrees, outcome \in {"deleted", "cancelled", "refused"} :
        /\ worktrees' = IF outcome = "deleted" THEN Worktree_delete(worktrees, slug)
                        ELSE worktrees
        /\ branches' = IF outcome = "deleted"
                       THEN Worktree_delete_branch(branches, BranchPrefix \o slug)
                       ELSE branches
        /\ treeOp' = TreeOp("delete", slug, outcome, FALSE, FALSE, {}, {})
    /\ UNCHANGED <<lifeVars, extractVars, pollVars, storeVars, commandVars, identVars, catalogVars>>

\* delete, lines 652-673, of a plurb that has a worktree: the user may cancel
\* at a warning and git may refuse; otherwise the worktree is deleted.
DeleteWorktree ==
    /\ \E slug \in worktrees, outcome \in {"deleted", "cancelled", "refused"} :
        /\ worktrees' = IF outcome = "deleted" THEN Worktree_delete(worktrees, slug)
                        ELSE worktrees
        /\ treeOp' = TreeOp("delete", slug, outcome, FALSE, FALSE, {}, {})
    /\ UNCHANGED branches
    /\ UNCHANGED <<lifeVars, extractVars, pollVars, storeVars, commandVars, identVars, catalogVars>>

\* git-cleanup going over every branch under pluribus/.
GitCleanup_AllPluribusBranches ==
    /\ LET orphaned == {b \in branches : HasPrefix(b, BranchPrefix)}
       IN  \E confirmed \in BOOLEAN, failed \in SUBSET orphaned :
            LET removed == IF confirmed THEN orphaned \ failed ELSE {}
            IN  /\ branches' = branches \ removed
                /\ treeOp' = TreeOp("git_cleanup", <<>>,
                                    IF confirmed THEN "cleaned" ELSE "cancelled",
                                    FALSE, FALSE, orphaned, removed)
    /\ UNCHANGED worktrees
    /\ UNCHANGED <<lifeVars, extractVars, pollVars, storeVars, commandVars, identVars, catalogVars>>

\* git-cleanup, lines 720-753: the orphaned branches are listed and, unless
\* the user declines, deleted one by one; a branch git refuses to delete
\* stays.
GitCleanup ==
    /\ LET orphaned == Worktree_get_orphaned_branches(worktrees, branches)
       IN  \E confirmed \in BOOLEAN, failed \in SUBSET orphaned :
            LET removed == IF confirmed THEN orphaned \ failed ELSE {}
            IN  /\ branches' = branches \ removed
                /\ treeOp' = TreeOp("git_cleanup", <<>>,
                                    IF confirmed THEN "cleaned" ELSE "cancelled",
                                    FALSE, FALSE, orphaned, removed)
    /\ UNCHANGED worktrees
    /\ UNCHANGED <<lifeVars, extractVars, pollVars, storeVars, commandVars, identVars, catalogVars>>

NextTree == WorkonWorktree \/ DeleteWorktree \/ GitCleanup

SpecTree == InitTree /\ [][NextTree]_vars

(***************************************************************************)
(* The agent functions on their own: resolve_agent called on the options   *)
(* of workon and the config, and spawn_agent on the agent resolved.        *)
(***************************************************************************)
AgentNames == {"", "custom", "ghost", HeadlessName}
TaskDescriptions == {"", "Task description"}

\* The definitions a config can give under the key "custom"; the third gives
\* the agent the name of the built-in (load_agents_from_config, line 53).
CustomAgents ==
    { AgentConfig("custom", "custom-cmd", <<>>, None),
      AgentConfig("custom", "custom-cmd", <<"--verbose">>, Some("npm install")),
      AgentConfig(HeadlessName, "claude-wrapper", <<"-p", "--output-format", "stream-json">>, None) }
\* and under the key of the built-in
OverridingAgents == { AgentConfig(HeadlessName, "custom-claude-cmd", <<>>, None) }

Entry(key, choice) == IF choice = None THEN EmptyDict ELSE [k \in {key} |-> choice[1]]
Configs ==
    { Overlay(Entry("custom", c), Entry(HeadlessName, h)) :
        c \in {None} \cup {Some(a) : a \in CustomAgents},
        h \in {None} \cup {Some(a) : a \in OverridingAgents} }

InitAgent ==
    /\ record = NoRecord
    /\ outfile = Absent
    /\ LifeAtRest
    /\ ExtractAtRest
    /\ PollAtRest
    /\ StoreAtRest
    /\ WorkspaceAtRest
    /\ InstanceAtRest
    /\ config_agents \in Configs
    /\ agent_name \in {None} \cup {Some(a) : a \in AgentNames}
    /\ default_agent \in {None} \cup {Some(a) : a \in AgentNames}
    /\ task_description \in TaskDescriptions
    /\ resolved = None
    /\ spawned = NoSpawn

\* cli.py line 251
CallResolveAgent ==
    /\ resolved = None
    /\ resolved' = Some(resolve_agent(agent_name, config_agents, default_agent))
    /\ UNCHANGED <<config_agents, agent_name, default_agent, task_description, spawned>>
    /\ UNCHANGED <<lifeVars, extractVars, pollVars, storeVars, workspaceVars, instanceVars>>

\* cli.py lines 260-268, after an agent was resolved
CallSpawnAgent ==
    /\ resolved # None /\ ~resolved[1].raised
    /\ spawned = NoSpawn
    /\ \E setup_ok \in BOOLEAN, popen \in {"pid", "not_found", "os_error"} :
        spawned' = spawn_agent(resolved[1].val[1], task_description, setup_ok, popen)
    /\ UNCHANGED <<config_agents, agent_name, default_agent, task_description, resolved>>
    /\ UNCHANGED <<lifeVars, extractVars, pollVars, storeVars, workspaceVars, instanceVars>>

NextAgent == CallResolveAgent \/ CallSpawnAgent

SpecAgent == InitAgent /\ [][NextAgent]_vars

(***************************************************************************)
(* The commands that take a task name or a plurb-id: resume, details and   *)
(* delete (cli.py), over the instances workon has made.                    *)
(***************************************************************************)
InstanceTasks == <<<<"A">>, <<"A", " ", "b">>>>
InstanceTodo == Some([i \in 1..Len(InstanceTasks) |-> TaskLine(InstanceTasks[i])])
Identifiers == {<<"A">>, <<"b">>, <<"x">>}

InitInstance ==
    /\ record = NoRecord
    /\ outfile = Absent
    /\ LifeAtRest
    /\ ExtractAtRest
    /\ PollAtRest
    /\ StoreAtRest
    /\ WorkspaceAtRest
    /\ AgentAtRest
    /\ plurbs = {}
    /\ matchOp = NoMatchOp

\* workon, lines 209-230: an instance of a task of todo.md, under a slug
\* that is not taken.
WorkonInstance ==
    /\ \E i \in 1..Len(InstanceTasks), sfx \in Suffixes :
        LET slug == task_to_slug(InstanceTasks[i], sfx)
        IN  /\ \A d \in plurbs : d.slug # slug
            /\ plurbs' = plurbs \cup {Plurb(InstanceTasks[i], slug)}
    /\ UNCHANGED matchOp
    /\ UNCHANGED <<lifeVars, extractVars, pollVars, storeVars, workspaceVars, agentVars>>

\* resume lines 329-379, details 529-572, delete 607-650: the identifier is
\* the name of a directory, or it is looked up in todo.md and the
\* directories of the task found are collected; of several the user chooses
\* one, or gives no valid choice.
Identify(cmd, identifier, choice) ==
    IF \E d \in plurbs : d.slug = identifier
    THEN MatchOp(cmd, "plurb_id", <<>>, {}, Some(identifier), "chosen")
    ELSE LET task == get_task_by_name(InstanceTodo, identifier)
         IN  IF task.raised THEN MatchOp(cmd, "none", <<>>, {}, None, "exit")
             ELSE LET matching == matching_plurbs(plurbs, task.val.name)
                  IN  IF matching = {}
                      THEN MatchOp(cmd, "task", task.val.name, matching, None, "exit")
                      ELSE IF Cardinality(matching) = 1
                      THEN MatchOp(cmd, "task", task.val.name, matching,
                                   Some((CHOOSE d \in matching : TRUE).slug), "chosen")
                      ELSE IF choice \in {d.slug : d \in matching}
                      THEN MatchOp(cmd, "task", task.val.name, matching, Some(choice), "chosen")
                      ELSE MatchOp(cmd, "task", task.val.name, matching, None, "exit")

Choices == {d.slug : d \in plurbs} \cup {<<>>}

\* resume: the session of the instance chosen is opened
Resume ==
    /\ \E identifier \in Identifiers \cup {d.slug : d \in plurbs}, choice \in Choices :
        matchOp' = Identify("resume", identifier, choice)
    /\ UNCHANGED plurbs
    /\ UNCHANGED <<lifeVars, extractVars, pollVars, storeVars, workspaceVars, agentVars>>

\* details: the instance chosen is printed
Details ==
    /\ \E identifier \in Identifiers \cup {d.slug : d \in plurbs}, choice \in Choices :
        matchOp' = Identify("details", identifier, choice)
    /\ UNCHANGED plurbs
    /\ UNCHANGED <<lifeVars, extractVars, pollVars, storeVars, workspaceVars, agentVars>>

\* delete: the worktree of the instance chosen is deleted, unless the user
\* declines (lines 652-673)
Delete ==
    /\ \E identifier \in Identifiers \cup {d.slug : d \in plurbs}, choice \in Choices,
          confirmed \in BOOLEAN :
        LET op == Identify("delete", identifier, choice)
        IN  IF op.plurb_id # None /\ confirmed
            THEN /\ matchOp' = [op EXCEPT !.outcome = "deleted"]
                 /\ plurbs' = {d \in plurbs : d.slug # op.plurb_id[1]}
            ELSE /\ matchOp' = [op EXCEPT !.outcome =
                                    IF op.plurb_id # None THEN "cancelled" ELSE "exit"]
                 /\ UNCHANGED plurbs
    /\ UNCHANGED <<lifeVars, extractVars, pollVars, storeVars, workspaceVars, agentVars>>

NextInstance == WorkonInstance \/ Resume \/ Details \/ Delete

SpecInstance == InitInstance /\ [][NextInstance]_vars

(***************************************************************************)
(* The properties.                                                         *)
(***************************************************************************)
\* process_completed_agent_run has just returned, having read `seen`.
AfterPostRun == lastOp = "post_run" /\ pc = "idle"
HasErrorKey(f) == f.kind = "object" /\ "error" \in f.keys
StatusBefore == Field(callPre[1], "status")

\* C1: whatever the status record was before, once
\* process_completed_agent_run has processed an envelope that is a JSON
\* object with an `error` key, the record has status "blocked" and blockers
\* that are not null and of type "agent_error".
C1_ErrorBlocks ==
    (AfterPostRun /\ HasErrorKey(seen)) =>
        /\ Field(record, "status") = Some("blocked")
        /\ "blockers" \in DOMAIN record
        /\ record.blockers # None
        /\ record.blockers[1].type = "agent_error"

\* A record that was "completed" is blocked by an error envelope.
C1_Witness ==
    /\ AfterPostRun /\ HasErrorKey(seen)
    /\ StatusBefore = Some("completed")
    /\ record.status = "blocked"

\* C2: whatever the status record was before, once
\* process_completed_agent_run has processed an envelope without `error` key
\* in whose result text an intervention is detected, the record has status
\* "awaiting_input" and holds the detected interventions.
C2_InterventionsAwaitInput ==
    (AfterPostRun /\ ~HasErrorKey(seen) /\ output_data.interventions # <<>>) =>
        /\ Field(record, "status") = Some("awaiting_input")
        /\ Field(record, "interventions") = Some(output_data.interventions)

\* A record that was "blocked" awaits input after such an envelope.
C2_Witness ==
    /\ AfterPostRun /\ ~HasErrorKey(seen) /\ output_data.interventions # <<>>
    /\ StatusBefore = Some("blocked")
    /\ record.status = "awaiting_input"
    /\ Len(record.interventions) >= 1

\* C3: when the envelope has no `error` key and no intervention is detected
\* (also when the output file is absent or not JSON),
\* process_completed_agent_run leaves the status field as it was before the
\* call.
C3_StatusUnchanged ==
    (AfterPostRun /\ ~HasErrorKey(seen) /\ output_data.interventions = <<>>) =>
        Field(record, "status") = StatusBefore

\* A "completed" record stays "completed" over a file that is not JSON,
\* while the call did write the record.
C3_Witness ==
    /\ AfterPostRun /\ seen.kind = "invalid"
    /\ StatusBefore = Some("completed")
    /\ record.status = "completed"
    /\ Some(record) # callPre

\* C4: a record made by StatusFile.create and changed by workon and
\* process_completed_agent_run only has blockers that are not null only when
\* its status is "blocked".
C4_BlockersOnlyWhenBlocked ==
    (provenance = "created" /\ "blockers" \in DOMAIN record /\ record.blockers # None) =>
        record.status = "blocked"

\* C5: after StatusFile.update(partial) every field of the document that is
\* no key of the partial, last_update aside, has the value it had before,
\* fields the schema does not know and fields of an old-schema record
\* included; and the document holds every field written by the updates so
\* far.
C5_UpdateMerges ==
    lastOp = "update" =>
        /\ \A k \in DOMAIN prior \ (DOMAIN arg \cup {"last_update"}) :
                k \in DOMAIN record /\ record[k] = prior[k]
        /\ \A k \in DOMAIN written \ {"last_update"} :
                k \in DOMAIN record /\ record[k] = written[k]

\* update({a}) then update({b}) on an old-schema record: a, b and the
\* field `blocker` of the old schema are all there.
C5_Witness ==
    /\ lastOp = "update"
    /\ arg = [b |-> JNum(2)]
    /\ "a" \in DOMAIN prior /\ "blocker" \in DOMAIN prior
    /\ "interventions" \notin DOMAIN prior
    /\ record.a = JNum(1) /\ record.b = JNum(2) /\ record.blocker = JNull
    /\ record.notes = JStr("Old status file")

\* C6: a load of the status document made while process_completed_agent_run
\* runs, or right after it, returns the whole document of before the call or
\* the whole document of after it.
C6_AtomicUpdate ==
    observed # None => (observed = callPre \/ observed = callPost)

\* A reader loaded the document during a call that then changed it.
C6_Witness ==
    /\ AfterPostRun
    /\ observed # None /\ observed = callPre
    /\ callPost # callPre
    /\ Field(callPost[1], "status") # Field(callPre[1], "status")

\* C7: extract_session_id_from_json, extract_result_from_json,
\* extract_error_from_output and process_agent_output never raise, whatever
\* the output file holds.
C7_NeverRaises == ~out.raised

\* C8: try_get_session_id ends whatever the writer of the output file does,
\* and once the elapsed time has reached the timeout without a pass having
\* returned, it has returned null.
C8_Terminates ==
    /\ <>(ppc = "done")
    /\ [](presult.how = "timeout" => (presult.val = JNull /\ elapsed >= timeout))
    /\ []((ppc = "done" /\ elapsed >= timeout) => presult.how = "timeout")

\* The file was polled, never became usable, and the call ran into its
\* timeout.
C8_Witness ==
    /\ ppc = "done" /\ presult.how = "timeout"
    /\ timeout > 0
    /\ lastRead # None /\ lastRead[1].kind = "invalid"

\* The last pass of try_get_session_id found nothing to parse.
LastPassUnusable == lastRead # None /\ lastRead[1].kind \in {"absent", "empty", "invalid"}

ValidJsonWithoutSessionKey(f) ==
    /\ f.kind \in {"object", "array", "string", "number", "null"}
    /\ ~HasSessionKey(f)

\* C10: the pass that reads valid JSON without a session_id key returns null
\* at once.
C10_NoKeyReturnsNull ==
    (lastRead # None /\ ValidJsonWithoutSessionKey(lastRead[1])) =>
        (ppc = "done" /\ presult = Ended("return", JNull))
\* C11: process_agent_output on an envelope with an `error` key returns the
\* error with no interventions, progress 0, phase "in_progress" and an empty
\* summary, whatever the result holds; on a file without error whose result
\* is a text (or missing) it returns what detect_interventions and
\* extract_progress_signals make of the result text, with error null.
C11_ErrorShortCircuits ==
    fn = "process_agent_output" =>
        LET res == extract_result_from_json(outfile)
        IN  /\ HasErrorKey(outfile) =>
                    /\ ~out.raised
                    /\ out.val.error = Some(ErrorInfo(ErrorOf(outfile), now))
                    /\ out.val.interventions = <<>>
                    /\ out.val.progress_percent = 0
                    /\ out.val.phase = "in_progress"
                    /\ out.val.work_summary = EmptySummary
            /\ (~HasErrorKey(outfile) /\ ~res.raised /\ res.val.t \in {"null", "str"}
                    /\ ~extract_error_from_output(outfile, now).raised) =>
                    /\ ~out.raised
                    /\ out.val.error = None
                    /\ out.val.interventions = detect_interventions(res.val, now).val
                    /\ out.val.progress_percent = extract_progress_signals(res.val).val.progress_percent
                    /\ out.val.phase = extract_progress_signals(res.val).val.phase
                    /\ out.val.work_summary = extract_progress_signals(res.val).val.work_summary

\* An error envelope whose result text asks a question and reports 45%:
\* neither shows in what is returned.
C11_Witness ==
    /\ fn = "process_agent_output"
    /\ HasErrorKey(outfile) /\ "result" \in outfile.keys /\ outfile.result = RStr(TextAsk)
    /\ ~out.raised
    /\ out.val.error # None /\ out.val.interventions = <<>> /\ out.val.progress_percent = 0

\* process_completed_agent_run has just ended, by returning or by raising;
\* the output file is still the one it read.
PostRunEnded == pc = "idle" /\ lastOp \in {"post_run", "post_run_raised"}

\* C12: once process_completed_agent_run has run over an envelope that
\* carries a session_id string, the record's session_id is that string; over
\* an envelope without session_id, or a file that is absent or malformed,
\* the record's session_id is what it was before the call.
C12_SessionWrittenWhenCarried ==
    /\ (PostRunEnded /\ HasSessionKey(outfile) /\ outfile.session.t = "str") =>
            Field(record, "session_id") = Some(outfile.session)
    /\ (AfterPostRun /\ ~HasSessionKey(seen)) =>
            Field(record, "session_id") = Field(callPre[1], "session_id")

\* C13: the progress_percent of a status record is an integer between 0 and
\* 100, whatever result text the agent produced.
C13_ProgressInRange ==
    "progress_percent" \in DOMAIN record =>
        (record.progress_percent \in Int /\ record.progress_percent >= 0
            /\ record.progress_percent <= 100)

\* C14: a record made by StatusFile.create and changed by workon and
\* process_completed_agent_run only never has status "completed": its status
\* is pending, in_progress, awaiting_input or blocked.
C14_NeverCompleted ==
    provenance = "created" =>
        record.status \in {"pending", "in_progress", "awaiting_input", "blocked"}

\* The agent of a created instance reported "100% ... complete": the record
\* has phase "complete" and progress 100, and its status is still the one
\* workon wrote.
C14_Witness ==
    /\ provenance = "created" /\ AfterPostRun
    /\ record.phase = "complete" /\ record.progress_percent = 100
    /\ record.status = "in_progress"

\* C15: delete removes the worktree and leaves its branch; a branch
\* disappears only in a run of git-cleanup.
C15_DeleteKeepsBranch ==
    /\ []((treeOp.op = "delete" /\ treeOp.outcome = "deleted") =>
            /\ treeOp.slug \notin worktrees
            /\ BranchPrefix \o treeOp.slug \in branches)
    /\ [][(branches \ branches' # {}) => treeOp'.op = "git_cleanup"]_vars

\* A worktree was deleted, its branch is there, and the worktree of another
\* instance lives on.
C15_Witness ==
    /\ treeOp.op = "delete" /\ treeOp.outcome = "deleted"
    /\ treeOp.slug \notin worktrees
    /\ BranchPrefix \o treeOp.slug \in branches
    /\ worktrees # {}

\* the branch has a live worktree
Live(b) == \E s \in worktrees : b = BranchPrefix \o s

\* C16: whatever worktrees were created and deleted, git-cleanup reports and
\* deletes only branches under pluribus/ that have no live worktree.
C16_CleanupOnlyOrphans ==
    /\ [](\A b \in treeOp.orphaned : HasPrefix(b, BranchPrefix) /\ ~Live(b))
    /\ [][\A b \in branches \ branches' : HasPrefix(b, BranchPrefix) /\ ~Live(b)]_vars

\* git-cleanup deleted the branch of a deleted worktree while another
\* worktree and its branch live on.
C16_Witness ==
    /\ treeOp.op = "git_cleanup" /\ treeOp.removed # {}
    /\ worktrees # {}
    /\ \A s \in worktrees : BranchPrefix \o s \in branches
    /\ MainBranch \in branches

\* C17: workon never calls Worktree.create with a slug that has a worktree,
\* and never ends in an error after a suffix collision.
C17_RetryUntilFree ==
    treeOp.op = "workon" =>
        /\ ~treeOp.on_existing
        /\ ~(treeOp.collided /\ treeOp.outcome # "created")

\* C18: for every task name and every lower case alphanumeric suffix,
\* task_to_branch_name(name, suffix) is "pluribus/" followed by
\* task_to_slug(name, suffix).
C18_BranchIsPrefixedSlug ==
    (names.slug # None /\ names.branch # None) =>
        names.branch[1] = BranchPrefix \o names.slug[1]

\* A name of a non-ASCII letter and an underscore, and a name that
\* normalizes to nothing: slug and branch name were both made.
C18_Witness ==
    /\ names.slug # None /\ names.branch # None
    /\ task_name \in {<<"é", "_">>, <<"!", "/">>}
    /\ names.slug[1] \in {<<"é", "_", "-", "1">>, <<"-", "1">>}

\* the two pairs of task name and suffix differ
PairsDiffer == task_name # other.task_name \/ unique_suffix # other.unique_suffix

\* C19 as claimed: two pairs that differ in task name or in suffix never
\* have the same slug.
C19_SlugInjective ==
    (names.slug # None /\ names.other_slug # None /\ PairsDiffer) =>
        names.slug # names.other_slug

\* C19 as amended: two pairs have the same slug exactly when their suffixes
\* are equal and their task names normalize to the same text.
C19_SlugInjectiveOnNormalized ==
    (names.slug # None /\ names.other_slug # None) =>
        (names.slug = names.other_slug <=>
            (unique_suffix = other.unique_suffix
                /\ Normalize(task_name) = Normalize(other.task_name)))

\* Two task names that differ in case only have one slug.
C19_Witness ==
    /\ names.slug # None /\ names.other_slug # None
    /\ task_name = <<"A", "b">> /\ other.task_name = <<"A", "B">>
    /\ unique_suffix = other.unique_suffix
    /\ names.slug = names.other_slug

\* the lines of todo.md that head a task whose name contains the query,
\* case aside
MatchingLines ==
    IF todo = None THEN {}
    ELSE {i \in 1..Len(todo[1]) :
            /\ todo[1][i].kind = "task"
            /\ Strip(todo[1][i].text, SpaceChars) # <<>>
            /\ IsSubstring(Lower(query), Lower(Strip(todo[1][i].text, SpaceChars)))}

\* C20: get_task_by_name(query) returns the first task of the document whose
\* name contains the query as a substring, case aside, and raises ValueError
\* exactly when no task name contains it.
C20_FirstMatchOrNotFound ==
    found # None =>
        /\ found[1].raised <=> MatchingLines = {}
        /\ ~found[1].raised =>
                LET first == CHOOSE i \in MatchingLines : \A j \in MatchingLines : i <= j
                IN  found[1].val.name = Strip(todo[1][first].text, SpaceChars)

\* Two tasks contain the query, in another case: the first is returned.
C20_Witness ==
    /\ found # None /\ ~found[1].raised
    /\ query = <<"a">>
    /\ todo = Some(<<TaskLine(<<"B", "A", " ">>), TaskLine(<<"a", "b">>)>>)
    /\ found[1].val.name = <<"B", "A">>

\* C21: whatever the agent, when spawn_agent has started the process for a
\* task with a description, the description is the last argument of the
\* command line or was written to the input stream of the process.
C21_DescriptionDelivered ==
    (spawned.outcome = "pid" /\ task_description # "")
        => \/ spawned.cmd[Len(spawned.cmd)] = task_description
           \/ spawned.stdin = Some(task_description)

\* The agent of a name according to the precedence: the config first, then
\* the built-ins.
AgentNamed(a) ==
    IF a \in DOMAIN config_agents THEN Some(config_agents[a])
    ELSE IF a \in DOMAIN get_default_agents THEN Some(get_default_agents[a])
    ELSE None
ResolveCalled == resolved # None

ResultText == ResultOf(outfile).text
CalledOnText(name) == fn = name /\ ResultOf(outfile).t = "str" /\ ResultText # <<>>
HasKw(toks, p) == \E i \in 1..Len(toks) : toks[i].kind = "kw" /\ toks[i].pat = p

\* C23: the phase is "complete" when a keyword of that family occurs;
\* "testing" when one of that family occurs and none of "complete"; and so
\* on down to "planning"; it is "in_progress" exactly when no keyword of any
\* family occurs.
C23_PhaseByPriority ==
    CalledOnText("extract_progress_signals") =>
        LET toks == Flat(ResultText)
            phase == out.val.phase
        IN  /\ ~out.raised
            /\ phase = "complete" <=> HasKw(toks, 1)
            /\ phase = "testing" <=> (~HasKw(toks, 1) /\ HasKw(toks, 2))
            /\ phase = "implementation" <=>
                    (~HasKw(toks, 1) /\ ~HasKw(toks, 2) /\ HasKw(toks, 3))
            /\ phase = "planning" <=>
                    (~HasKw(toks, 1) /\ ~HasKw(toks, 2) /\ ~HasKw(toks, 3) /\ HasKw(toks, 4))
            /\ phase = "in_progress" <=> (\A p \in 1..PhasePatterns : ~HasKw(toks, p))

\* A text whose first keyword is a planning keyword and that has testing
\* and implementation keywords too: the phase is "testing".
C23_Witness ==
    /\ CalledOnText("extract_progress_signals")
    /\ ResultText = TextPhases
    /\ out.val.phase = "testing"

\* The (payload, type) pair of an intervening token of the text.
TokKey(tk) ==
    <<tk.payload, IF tk.kind = "ask" THEN "ask_user_question" ELSE "permission_grant">>
IntervToks(toks) == SelectSeq(toks, LAMBDA tk : tk.kind \in {"ask", "perm"})
KeysOf(ivs) == [i \in 1..Len(ivs) |-> IntervKey(ivs[i])]

RECURSIVE FirstOccurrences(_, _)
\* the pairs of a sequence of tokens, each once, in the order in which they
\* first occur
FirstOccurrences(toks, had) ==
    IF toks = <<>> THEN <<>>
    ELSE IF TokKey(toks[1]) \in had THEN FirstOccurrences(Tail(toks), had)
    ELSE <<TokKey(toks[1])>> \o FirstOccurrences(Tail(toks), had \cup {TokKey(toks[1])})

\* C24 as stated: the entries returned are the pairs of the text, each
\* once, in the order in which they first occur in the text.
C24_TextOrder ==
    CalledOnText("detect_interventions") =>
        /\ ~out.raised
        /\ KeysOf(out.val) = FirstOccurrences(IntervToks(Flat(ResultText)), {})

\* Where the scan finds a match: the family (questions first), then the
\* pattern, then the place in the text.
ScanRank(toks, i) ==
    ((IF toks[i].kind = "ask" THEN 0 ELSE AskPatterns) + toks[i].pat) * (Len(toks) + 1) + i
KeyRank(toks, key) ==
    LET at == {i \in 1..Len(toks) : TokKey(toks[i]) = key}
    IN  ScanRank(toks, CHOOSE i \in at : \A j \in at : ScanRank(toks, i) <= ScanRank(toks, j))

\* C24 (amended): no two entries have the same (type, payload); every pair
\* matched in the text has its entry; and the entries are listed in the
\* order in which the scan first finds their pairs: questions before
\* permission requests, pattern by pattern, and the matches of one pattern
\* in text order.
C24_ScanOrder ==
    CalledOnText("detect_interventions") =>
        LET toks == IntervToks(Flat(ResultText))
            keys == KeysOf(out.val)
        IN  /\ ~out.raised
            /\ \A i, j \in 1..Len(keys) : i # j => keys[i] # keys[j]
            /\ {keys[i] : i \in 1..Len(keys)} = {TokKey(toks[i]) : i \in 1..Len(toks)}
            /\ \A i, j \in 1..Len(keys) :
                    i < j => KeyRank(toks, keys[i]) < KeyRank(toks, keys[j])
            /\ \A i \in 1..Len(out.val) : out.val[i].timestamp = now

\* Questions and a permission request interleaved and repeated: one entry
\* each, the questions first, the request that the text starts with last.
C24_Witness ==
    /\ CalledOnText("detect_interventions")
    /\ ResultText = TextMixed
    /\ KeysOf(out.val) = << <<"the backlog", "ask_user_question">>,
                            <<"the schema", "ask_user_question">>,
                            <<"write files", "permission_grant">> >>

\* C25: the summary has at most 200 characters, and when the first line of
\* the text is not blank the summary begins with that line, cut to 200
\* characters when the line is longer.
C25_SummaryBeginsWithFirstLine ==
    CalledOnText("extract_progress_signals") =>
        LET first == ResultText[1]
            summary == out.val.work_summary
        IN  /\ ~out.raised
            /\ summary.len <= SummaryLimit
            /\ first.len > 0 =>
                    /\ summary.lines >= 1
                    /\ summary.len >= (IF first.len > SummaryLimit THEN SummaryLimit ELSE first.len)

\* C30: when resume, details or delete took their identifier as a task
\* name, every directory they matched, and the one they chose or deleted,
\* is an instance workon made for the task the name resolved to.
C30_MatchesOnlyOwnInstances ==
    matchOp.by = "task" =>
        /\ \A d \in matchOp.matching : d.task = matchOp.task
        /\ matchOp.plurb_id # None =>
                \A d \in matchOp.matching :
                    d.slug = matchOp.plurb_id[1] => d.task = matchOp.task

\* The signals of an envelope: the defaults for an error envelope, an
\* absent file and a file that is not JSON.
SignalsOf(f) ==
    IF HasErrorKey(f) \/ f.kind \in {"absent", "empty", "invalid"} THEN DefaultSignals
    ELSE extract_progress_signals(ResultOf(f)).val

Halted == {Some("blocked"), Some("awaiting_input")}

\* C27: a step of process_completed_agent_run taken with status "blocked" or
\* "awaiting_input" leaves the status one of the two, and the step that
\* writes the record leaves the stored interventions as they are when the
\* call detected none.
C27_NoWayBack ==
    [][ (lastOp' \in {"post_run_parse", "post_run", "post_run_raised"}) =>
            /\ Field(record, "status") \in Halted => Field(record', "status") \in Halted
            /\ (pc = "parsed" /\ pc' = "idle" /\ output_data.interventions = <<>>) =>
                    Field(record', "interventions") = Field(record, "interventions")
      ]_vars

\* A call on an envelope without error and without intervention has left a
\* record awaiting input, with its interventions, as it was.
C27_Witness ==
    /\ AfterPostRun
    /\ StatusBefore = Some("awaiting_input")
    /\ Field(callPre[1], "interventions") # None
    /\ callPre[1].interventions # <<>>
    /\ output_data.interventions = <<>> /\ output_data.error = None
    /\ record.status = "awaiting_input"
    /\ record.interventions = callPre[1].interventions

\* A status document without the time of its last update and the times of
\* its interventions and blockers.
Untimed(rec) ==
    [k \in DOMAIN rec \ {"last_update"} |->
        IF k = "interventions"
        THEN [i \in 1..Len(rec[k]) |-> [rec[k][i] EXCEPT !.timestamp = 0]]
        ELSE IF k = "blockers" /\ rec[k] # None
        THEN Some([rec[k][1] EXCEPT !.timestamp = 0])
        ELSE rec[k]]

\* C28: a call that began right after another call returned, on the same
\* output file, leaves the record as that call left it, but for last_update
\* and the timestamps of interventions and blockers.
C28_Idempotent ==
    (AfterPostRun /\ rerun) => Untimed(callPost[1]) = Untimed(callPre[1])

\* The second of two calls in a row, at a later time than the first, on an
\* envelope with interventions: the timestamps are new, the rest is as it was.
C28_Witness ==
    /\ AfterPostRun /\ rerun
    /\ output_data.interventions # <<>>
    /\ callPost[1].last_update # callPre[1].last_update
    /\ callPost[1].interventions # callPre[1].interventions
    /\ Untimed(callPost[1]) = Untimed(callPre[1])

Pending(rec) ==
    /\ rec # NoRecord
    /\ rec.status = "pending"
    /\ rec.agent_pid = None
    /\ rec.claude_instance_active = FALSE

\* C29: between the creation of the status file and the return of
\* spawn_agent the record is "pending" with no pid and not active; the only
\* step of workon that changes it then is the one after spawn_agent has
\* returned a pid, which makes it "in_progress", active and with that pid;
\* after a failed setup or spawn it is still the pending record of the
\* worktree.
C29_InProgressOnlyAfterSpawn ==
    /\ [](wpc = "created" => Pending(record))
    /\ [](lastOp = "spawn_failed" => (Pending(record) /\ record.task_id = TaskSlug))
    /\ [](lastOp = "spawn" =>
            /\ record.status = "in_progress"
            /\ record.claude_instance_active = TRUE
            /\ record.agent_pid \in {Some(pid) : pid \in AgentPids})
    /\ [][ (wpc = "created" /\ record' # record) => lastOp' = "spawn" ]_vars

\* spawn_agent failed after it had opened the output file: the record of the
\* worktree is the pending one.
C29_Witness ==
    /\ lastOp = "spawn_failed"
    /\ outfile = EmptyFile
    /\ Pending(record)


====
